---- MODULE Spec2Model ----
(***************************************************************************)
(* A model of the template store of ai-process-blueprint:                  *)
(*   app/data/repository.py   FileSystemTemplateRepository (keying, codec, *)
(*                            atomic write, create/get/update/delete)      *)
(*   app/core/services.py     TemplateService.create_template              *)
(*   app/api/routes.py        the status code of POST /api/templates       *)
(*                                                                         *)
(* Text is a sequence of one-character strings.  A file is a sequence of   *)
(* such characters in which the multi-character lexemes the codec looks    *)
(* for ("---", "title:", a quote, an ISO timestamp) are single elements.   *)
(* The directory maps file names to inodes, so that a file descriptor      *)
(* keeps its file across a rename or an unlink, as on POSIX.               *)
(*                                                                         *)
(* A coroutine runs on one event loop and yields at every await; each      *)
(* action below is one awaited file-system call together with the          *)
(* synchronous code that follows it up to the next await.                  *)
(***************************************************************************)
EXTENDS Integers, Sequences, FiniteSets, TLC

\* ------------------------------------------------------------------ bounds

\* Operations invoked in one behaviour.
MaxOps == 3
\* Largest reading of the wall clock.
MaxClock == 3

\* ------------------------------------------------------------ text helpers

\* Python's None and an unset pydantic field, as sequences no text equals.
NoneV == <<"<None>">>
Unset == <<"<unset>">>

IsStr(v) == v # NoneV /\ v # Unset

\* str.isspace for the characters of the model.
IsSpace(c) == c \in {" ", "\n", "\t"}

RECURSIVE LStrip(_, _)
\* s without its leading characters that satisfy the membership in cs.
LStrip(s, cs) ==
    IF s # <<>> /\ Head(s) \in cs THEN LStrip(Tail(s), cs) ELSE s

RECURSIVE RStrip(_, _)
RStrip(s, cs) ==
    IF s # <<>> /\ s[Len(s)] \in cs THEN RStrip(SubSeq(s, 1, Len(s) - 1), cs) ELSE s

\* str.strip(chars)
StripChars(s, cs) == RStrip(LStrip(s, cs), cs)

\* str.strip(): leading and trailing whitespace removed.
StripSpace(s) == StripChars(s, {" ", "\n", "\t"})

\* A lowering that leaves every character as it is.
SameChar(c) == c

\* str.lower / str.upper on the letters of the model.
LowerChar(c) ==
    CASE c = "A" -> "a" [] c = "B" -> "b" [] c = "X" -> "x" [] OTHER -> c

UpperChar(c) ==
    CASE c = "a" -> "A" [] c = "b" -> "B" [] c = "x" -> "X" [] OTHER -> c

IsLetter(c) == c \in {"a", "b", "x", "A", "B", "X", "d", "e", "f", "u", "l", "t", "m", "p"}

\* unicodedata.normalize('NFKC', .): compatibility characters fold to their
\* plain form ("U+FF21" is FULLWIDTH A, "U+3000" IDEOGRAPHIC SPACE).
NFKCChar(c) ==
    CASE c = "U+FF21" -> "A" [] c = "U+3000" -> " " [] OTHER -> c

NFKC(s) == [i \in 1..Len(s) |-> NFKCChar(s[i])]

\* ------------------------------------------------------------------ keying

\* The character class of the first re.sub in _sanitize_filename.
InvalidChar(c) ==
    \/ IsSpace(c)
    \/ c \in {"<", ">", ":", "\"", "/", "\\", "|", "?", "*", ".", ",", ";",
              "!", "#", "%", "=", "+", "~", "'"}

\* re.sub(r'[...]+', '_', s): every maximal run of class characters -> one
\* "_" (the last character of a run stands for the run).
ReplaceInvalidRuns(s) ==
    LET mark(i) == [c |-> IF InvalidChar(s[i]) THEN "_" ELSE s[i],
                    keep |-> \/ ~InvalidChar(s[i])
                             \/ i = Len(s)
                             \/ ~InvalidChar(s[i + 1])]
        kept(m) == m.keep
        marked == SelectSeq([i \in 1..Len(s) |-> mark(i)], kept)
    IN  [i \in 1..Len(marked) |-> marked[i].c]

\* re.sub(r'_{2,}', '_', s) (the last underscore of a run stands for the run).
CollapseUnderscores(s) ==
    LET mark(i) == [c |-> s[i],
                    keep |-> ~(s[i] = "_" /\ i < Len(s) /\ s[i + 1] = "_")]
        kept(m) == m.keep
        marked == SelectSeq([i \in 1..Len(s) |-> mark(i)], kept)
    IN  [i \in 1..Len(marked) |-> marked[i].c]

\* max_len of _sanitize_filename.
max_len == 100

DefaultTemplate ==
    <<"d", "e", "f", "a", "u", "l", "t", "_", "t", "e", "m", "p", "l", "a", "t", "e">>

\* A sanitizer without the substitute for an empty result.
SanitizeNoDefault(filename) ==
    LET lowered == CollapseUnderscores(StripChars(ReplaceInvalidRuns(NFKC(filename)),
                                                  {"_", "."}))
    IN  [i \in 1..Len(lowered) |-> LowerChar(lowered[i])]

\* FileSystemTemplateRepository._sanitize_filename
SanitizeFilename(filename) ==
    LET normalized == NFKC(filename)
        replaced   == ReplaceInvalidRuns(normalized)
        stripped   == StripChars(replaced, {"_", "."})
        collapsed  == CollapseUnderscores(stripped)
        lowered    == [i \in 1..Len(collapsed) |-> LowerChar(collapsed[i])]
        truncated  == IF Len(lowered) > max_len
                      THEN StripChars(SubSeq(lowered, 1, max_len), {"_"})
                      ELSE lowered
    IN  IF truncated = <<>> THEN DefaultTemplate ELSE truncated

\* FileSystemTemplateRepository._title_to_filename: the key, a file name.
TitleToFilename(title) == SanitizeFilename(title) \o <<".md">>

\* Path.with_suffix(suffix + '.tmp') in _safe_write.
TempPath(path) == path \o <<".tmp">>

RECURSIVE TitleCase(_, _)
\* str.title(): a letter is upper-cased after a non-letter, lower-cased after
\* a letter.
TitleCase(s, afterLetter) ==
    IF s = <<>> THEN <<>>
    ELSE <<IF afterLetter THEN LowerChar(Head(s)) ELSE UpperChar(Head(s))>>
         \o TitleCase(Tail(s), IsLetter(Head(s)))

\* FileSystemTemplateRepository._filename_to_title
FilenameToTitle(filename) ==
    LET stem == IF filename # <<>> /\ filename[Len(filename)] \in {".md", ".tmp"}
                THEN SubSeq(filename, 1, Len(filename) - 1)
                ELSE filename
        spaced == [i \in 1..Len(stem) |-> IF stem[i] = "_" THEN " " ELSE stem[i]]
    IN  TitleCase(spaced, FALSE)

\* ------------------------------------------------------------------- codec

\* A record of the store (schemas.models.Template).
Template(title, content, description, username, created_at, updated_at) ==
    [title |-> title, content |-> content, description |-> description,
     username |-> username, created_at |-> created_at, updated_at |-> updated_at]

\* The keys _write_template_file puts in the front matter, in its order.
MetaKeys == <<"title:", "description:", "username:", "created_at:", "updated_at:">>

KeyLexemes == {MetaKeys[i] : i \in 1..Len(MetaKeys)}

\* A formatting that loses the instant.
IsoFormatEpoch(t) == "0"

\* datetime.isoformat(): the timestamp as one lexeme of the file.
IsoFormat(t) == ToString(t)

\* The instants the model's clock can show.
Instants == 0..MaxClock

\* A value yaml.safe_load resolves to a datetime object, not a str.
DateTimeObj(lexeme) == <<"<datetime>", lexeme>>

\* A value yaml.safe_load resolves to an int, not a str.
IntObj(lexeme) == <<"<int>", lexeme>>

\* The lexemes yaml.safe_load resolves to an int.
IsIntLexeme(x) == x = "42"

IsIsoLexeme(x) == \E t \in Instants : IsoFormat(t) = x

\* Whether datetime.fromisoformat(s) returns (it raises ValueError otherwise).
IsoParses(s) == Len(s) = 1 /\ IsIsoLexeme(s[1])

\* datetime.fromisoformat(s), for a string it parses.
FromIsoFormat(s) == CHOOSE t \in Instants : IsoFormat(t) = s[1]

\* yaml.dump of one scalar: None is null; a str is written plain unless a
\* plain scalar would load as something else (empty, padded with spaces, or
\* looking like a timestamp), and then single-quoted.
YamlDumpScalar(v) ==
    IF v = NoneV THEN <<"null">>
    ELSE IF \/ v = <<>>
            \/ IsSpace(v[1]) \/ IsSpace(v[Len(v)])
            \/ IsoParses(v)
            \/ (Len(v) = 1 /\ IsIntLexeme(v[1]))
            \/ v = <<"null">>
         THEN <<"'">> \o v \o <<"'">>
         ELSE v

\* yaml.safe_load of one scalar.
YamlLoadScalar(toks) ==
    LET s == StripSpace(toks)
    IN  IF s = <<>> \/ s = <<"null">> THEN NoneV
        ELSE IF Len(s) >= 2 /\ s[1] = "'" /\ s[Len(s)] = "'"
             THEN SubSeq(s, 2, Len(s) - 1)
             ELSE IF IsoParses(s)
                  THEN DateTimeObj(s[1])
                  ELSE IF Len(s) = 1 /\ IsIntLexeme(s[1])
                       THEN IntObj(s[1])
                       ELSE s

\* FileSystemTemplateRepository._write_template_file: the file content,
\* f"---\n{yaml_frontmatter}---\n\n{template.content}".
Serialize(t) ==
    LET line(k, v) == <<k>> \o YamlDumpScalar(v) \o <<"\n">>
        body == IF t.content = NoneV THEN <<"N", "o", "n", "e">> ELSE t.content
    IN  <<"---", "\n">>
        \o line("title:", t.title)
        \o line("description:", t.description)
        \o line("username:", t.username)
        \o line("created_at:", <<IsoFormat(t.created_at)>>)
        \o line("updated_at:", <<IsoFormat(t.updated_at)>>)
        \o <<"---", "\n", "\n">>
        \o body

\* The positions of the "---" lexemes of a file.
DelimPositions(content) == {i \in 1..Len(content) : content[i] = "---"}

Min(S) == CHOOSE x \in S : \A y \in S : x <= y

RECURSIVE SplitLines(_)
\* str.splitlines on the front matter.
SplitLines(s) ==
    IF s = <<>> THEN <<>>
    ELSE LET nl == {i \in 1..Len(s) : s[i] = "\n"}
         IN  IF nl = {} THEN <<s>>
             ELSE <<SubSeq(s, 1, Min(nl) - 1)>>
                  \o SplitLines(SubSeq(s, Min(nl) + 1, Len(s)))

\* Whether yaml.safe_load(frontmatter) is a dict: every line is "key: value".
\* Anything else is a plain scalar (not a dict) or raises yaml.YAMLError.
IsMapping(frontmatter) ==
    LET lines == SplitLines(frontmatter)
    IN  \A i \in 1..Len(lines) :
            \/ StripSpace(lines[i]) = <<>>
            \/ /\ lines[i][1] \in KeyLexemes
               /\ \A j \in 2..Len(lines[i]) : lines[i][j] \notin KeyLexemes \cup {"---"}

\* The dict yaml.safe_load returns: a later duplicate key wins.
LoadMapping(frontmatter) ==
    LET lines == SplitLines(frontmatter)
        idx(k) == {i \in 1..Len(lines) : lines[i] # <<>> /\ lines[i][1] = k}
        keys == {k \in KeyLexemes : idx(k) # {}}
        last(k) == CHOOSE i \in idx(k) : \A j \in idx(k) : j <= i
    IN  [k \in keys |-> YamlLoadScalar(Tail(lines[last(k)]))]

EmptyDict == [k \in {} |-> NoneV]

\* dict.get(key, default)
DictGet(d, k, default) == IF k \in DOMAIN d THEN d[k] ELSE default

\* An extraction that recovers what follows a malformed front matter as the
\* content, instead of keeping the whole text.
ExtractPartial(content) ==
    LET ds == DelimPositions(content)
    IN  IF content # <<>> /\ content[1] = "---" /\ Cardinality(ds) >= 2
        THEN [metadata |-> EmptyDict,
              markdown_content |->
                  StripSpace(SubSeq(content, Min(ds \ {1}) + 1, Len(content)))]
        ELSE [metadata |-> EmptyDict, markdown_content |-> content]

\* _read_template_file, the extraction of the front matter:
\* (metadata, markdown_content) of a file's text.
ExtractFrontMatter(content) ==
    LET whole == [metadata |-> EmptyDict, markdown_content |-> content]
        ds == DelimPositions(content)
    IN  IF content # <<>> /\ content[1] = "---"
        THEN IF Cardinality(ds) >= 2
             THEN LET second == Min(ds \ {1})
                      frontmatter == StripSpace(SubSeq(content, 2, second - 1))
                      rest == StripSpace(SubSeq(content, second + 1, Len(content)))
                  IN  IF frontmatter # <<>>
                      THEN IF IsMapping(frontmatter)
                           THEN [metadata |-> LoadMapping(frontmatter),
                                 markdown_content |-> rest]
                           ELSE whole
                      ELSE [metadata |-> EmptyDict, markdown_content |-> rest]
             ELSE whole
        ELSE whole

\* A validation that accepts every value.
ValidStrAny(v) == TRUE

\* Whether pydantic accepts v for a str field.
ValidStr(v) == v # NoneV /\ (v = <<>> \/ v[1] \notin {"<datetime>", "<int>"})

\* `not created_at_str or not updated_at_str`
Falsy(v) == v = NoneV \/ v = <<>>

\* _read_template_file after the read: what remains to do with the text.
\*   "stat"    the timestamps are missing or unparsable: os.stat comes next
\*   "ok"      the Template
\*   "IOError" an exception the last handler turns into TemplateIOError
\* mtime is used only after a stat.
ParseTemplate(content, filename, mtime, statDone) ==
    LET fm == ExtractFrontMatter(content)
        metadata == fm.metadata
        title == DictGet(metadata, "title:", FilenameToTitle(filename))
        created_at_str == DictGet(metadata, "created_at:", NoneV)
        updated_at_str == DictGet(metadata, "updated_at:", NoneV)
        description == DictGet(metadata, "description:", <<>>)
        username == DictGet(metadata, "username:",
                            <<"u", "n", "k", "n", "o", "w", "n">>)
        build(c, u) ==
            IF ValidStr(title) /\ ValidStr(description) /\ ValidStr(username)
            THEN [st |-> "ok",
                  t |-> Template(title, fm.markdown_content, description, username, c, u)]
            ELSE [st |-> "IOError"]
        fallback == IF statDone THEN build(mtime, mtime) ELSE [st |-> "stat"]
    IN  IF Falsy(created_at_str) \/ Falsy(updated_at_str)
        THEN fallback
        ELSE \* fromisoformat(created_at_str), then fromisoformat(updated_at_str):
             \* TypeError for a value that is no str, ValueError for a bad one.
             IF ~ValidStr(created_at_str) THEN [st |-> "IOError"]
             ELSE IF ~IsoParses(created_at_str) THEN fallback
             ELSE IF ~ValidStr(updated_at_str) THEN [st |-> "IOError"]
             ELSE IF ~IsoParses(updated_at_str) THEN fallback
             ELSE build(FromIsoFormat(created_at_str), FromIsoFormat(updated_at_str))

\* ---------------------------------------------------------------- requests

\* The coroutines of the event loop that serve requests.
Procs == {"p1", "p2"}

\* "a" and "A" are distinct titles with the same key; <<>> is the empty title
\* and <<" ">> a blank one.
Titles == {<<>>, <<" ">>, <<"a">>, <<"A">>}

\* A call of the store or of the service: its kind, the title, and the fields
\* of TemplateCreate / TemplateUpdate (Unset: not supplied by the caller).
Request(kind, title, content, description, username) ==
    [kind |-> kind, title |-> title, content |-> content,
     description |-> description, username |-> username]

NoRequest == Request("none", <<>>, Unset, Unset, Unset)

\* TemplateCreate payloads <<content, description, username>>: contents of
\* different lengths.
CreateData ==
    { <<<<"x">>, <<>>, <<"u">>>>, <<<<"y", "z">>, <<"d">>, <<"v">>>> }

\* TemplateUpdate payloads <<content, description, username>>.
UpdateData ==
    { <<<<"y", "z">>, Unset, Unset>>,
      <<<<>>, Unset, Unset>>,
      <<NoneV, Unset, Unset>>,
      <<Unset, <<>>, Unset>>,
      <<Unset, <<"e">>, <<"w">>>>,
      <<Unset, Unset, NoneV>>,
      <<<<"x">>, NoneV, <<"w">>>> }

\* The requests of the sequential specification.
Requests ==
    {Request(k, t, Unset, Unset, Unset) : k \in {"get", "delete"}, t \in Titles}
    \cup {Request("get", <<"r">>, Unset, Unset, Unset)}
    \cup {Request("create", <<"a">>, d[1], d[2], d[3]) : d \in CreateData}
    \cup {Request("create", t, <<"x">>, <<>>, <<"u">>) : t \in Titles}
    \cup {Request("update", <<"a">>, d[1], d[2], d[3]) : d \in UpdateData}
    \cup {Request("update", t, <<"y", "z">>, Unset, Unset) : t \in Titles}

\* The requests of the interleaved specification: one key, two titles.
ConcRequests ==
    { Request("get", <<"a">>, Unset, Unset, Unset),
      Request("delete", <<"a">>, Unset, Unset, Unset),
      Request("create", <<"a">>, <<"x">>, <<>>, <<"u">>),
      Request("create", <<"A">>, <<"y", "z">>, <<"d">>, <<"v">>),
      Request("svc_create", <<"a">>, <<"x">>, <<>>, <<"u">>),
      Request("update", <<"a">>, <<"y", "z">>, Unset, Unset) }

\* The largest number of injected file-system failures in one behaviour.
MaxFaults == 1

\* ------------------------------------------------------------------- state

VARIABLES
    dir,      \* the template directory: file name -> inode
    inodes,   \* inode -> [data: the file's text, mtime]
    now,      \* the last reading of the wall clock
    pc,       \* per coroutine: the await it is suspended at, or "idle"
    op,       \* per coroutine: the request it serves (or served last)
    loc,      \* per coroutine: its local variables
    nops,     \* requests invoked so far
    faults,   \* file-system failures injected so far
    call,     \* history: per coroutine, when its request began and the files then
    hist,     \* history: the completed requests in the order of their return
    writes,   \* history: every file content handed to _safe_write
    deleted,  \* history: keys deleted with no create issued since
    ls        \* per coroutine: the local variables of list

vars == <<dir, inodes, now, pc, op, loc, nops, faults, call, hist, writes, deleted, ls>>

NoTemplate == Template(Unset, Unset, Unset, Unset, 0, 0)

\* fd: the inode of the open file (0: none); text: what f.read() returned;
\* tmpl: the Template to write and return.
Locals(fd, text, tmpl) == [fd |-> fd, text |-> text, tmpl |-> tmpl]

NoLocals == Locals(0, <<>>, NoTemplate)

\* The local variables of list: limit and offset as the store receives them,
\* all_files, the results gathered so far, and the returned templates.
Listing(limit, offset, all_files, results, templates) ==
    [limit |-> limit, offset |-> offset, all_files |-> all_files,
     results |-> results, templates |-> templates]

NoListing == Listing(0, 0, <<>>, <<>>, <<>>)

EmptyFn == [x \in {} |-> 0]

\* ------------------------------------------------------------- file system

\* The directory as its readers see it: file name -> text.
ViewOf(d, ino) == [n \in DOMAIN d |-> ino[d[n]].data]

View == ViewOf(dir, inodes)

\* f with x mapped to v.
Put(f, x, v) == [y \in DOMAIN f \cup {x} |-> IF y = x THEN v ELSE f[y]]

\* A removal that leaves the name in place.
DropNothing(f, x) == f

\* f without x.
Drop(f, x) == [y \in DOMAIN f \ {x} |-> f[y]]

\* The inode number of a new file.
FreshInode(ino) == CHOOSE i \in 1..(Cardinality(DOMAIN ino) + 1) : i \notin DOMAIN ino

\* The file descriptors the coroutines other than p hold.
OtherFds(p) == {loc[q].fd : q \in Procs \ {p}} \ {0}

\* An inode lives while a name or an open descriptor refers to it.
Gc(ino, d, fds) == [i \in (DOMAIN ino) \cap ({d[n] : n \in DOMAIN d} \cup fds) |-> ino[i]]

\* A write of `new` at offset 0 of a file holding `old`.
Overwrite(old, new) == new \o SubSeq(old, Len(new) + 1, Len(old))

\* What datetime.now(timezone.utc) can return: the wall clock does not go
\* back, and two readings may show the same instant.
ClockReadings == {t \in {now, now + 1} : t <= MaxClock}

\* The key of the request p serves, and the temporary file of its write.
PathOf(p) == TitleToFilename(op[p].title)

TempOf(p) == TempPath(PathOf(p))

\* ------------------------------------------------------------- the handlers

\* A completed request: who served it, the request, the outcome ("ok" or the
\* exception), the returned Template, the logical times of call and return,
\* and the directory at the call and at the return.
Entry(p, r, st, t, inv, ret, pre, post) ==
    [proc |-> p, op |-> r, st |-> st, t |-> t, inv |-> inv, ret |-> ret,
     pre |-> pre, post |-> post]

\* The logical time of the next call or return.
Stamp == nops + Len(hist) + 1

\* The request of p returns (st = "ok") or raises st; d2 and ino2 are the
\* directory and the inodes it leaves.
Finish(p, st, t, d2, ino2) ==
    /\ pc' = [pc EXCEPT ![p] = "idle"]
    /\ loc' = [loc EXCEPT ![p] = NoLocals]
    /\ hist' = Append(hist, Entry(p, op[p], st, t, call[p].inv, Stamp, call[p].pre,
                                  ViewOf(d2, ino2)))

\* A merge that applies a supplied username of None as well.
MergeUpdateAll(existing, r, t) ==
    [existing EXCEPT
       !.content = IF r.content = Unset THEN @ ELSE r.content,
       !.description = IF r.description = Unset THEN @ ELSE r.description,
       !.username = IF r.username = Unset THEN @ ELSE r.username,
       !.updated_at = t]

\* A merge that stamps created_at as well.
MergeUpdateRestamp(existing, r, t) ==
    [existing EXCEPT
       !.content = IF r.content = Unset THEN @ ELSE r.content,
       !.description = IF r.description = Unset THEN @ ELSE r.description,
       !.username = IF r.username \in {Unset, NoneV} THEN @ ELSE r.username,
       !.created_at = t,
       !.updated_at = t]

\* TemplateUpdate.model_dump(exclude_unset=True), model_copy(update=...), the
\* new updated_at, and the username kept when template_update.username is None
\* (repository.py, update).
MergeUpdate(existing, r, t) ==
    LET copied == [existing EXCEPT
                     !.content = IF r.content = Unset THEN @ ELSE r.content,
                     !.description = IF r.description = Unset THEN @ ELSE r.description,
                     !.username = IF r.username = Unset THEN @ ELSE r.username,
                     !.updated_at = t]
    IN  IF r.username = Unset \/ r.username = NoneV
        THEN [copied EXCEPT !.username = existing.username]
        ELSE copied

\* A request arrives at an idle coroutine.  The synchronous start of the
\* handler runs: `if not title` raises the validation error; otherwise the
\* handler suspends at its first await.
Invoke(p, r) ==
    /\ pc[p] = "idle"
    /\ nops < MaxOps
    /\ nops' = nops + 1
    /\ op' = [op EXCEPT ![p] = r]
    /\ call' = [call EXCEPT ![p] = [inv |-> Stamp, pre |-> View]]
    /\ deleted' = IF r.kind \in {"create", "svc_create"} /\ r.title # <<>>
                  THEN deleted \ {TitleToFilename(r.title)}
                  ELSE deleted
    /\ IF r.title = <<>>
       THEN /\ hist' = Append(hist, Entry(p, r, "ValidationError", NoTemplate,
                                          Stamp, Stamp + 1, View, View))
            /\ pc' = pc
       ELSE /\ hist' = hist
            /\ pc' = [pc EXCEPT ![p] =
                        CASE r.kind \in {"get", "update", "svc_create"} -> "read_open"
                          [] r.kind = "create" -> "exists"
                          [] r.kind = "delete" -> "remove"]
    /\ UNCHANGED <<dir, inodes, now, loc, faults, writes, ls>>

\* _read_template_file has returned or raised R; the caller goes on:
\*   get                returns R;
\*   update             merges, reads the clock and starts the write, or
\*                      propagates the exception;
\*   create_template    (service) raises AlreadyExists when the get returned,
\*                      goes on to repository.create when it raised NotFound.
ReadDone(p, R, ino2) ==
    LET t == IF R.st = "ok" THEN R.t ELSE NoTemplate
    IN  CASE op[p].kind = "update" /\ R.st = "ok" ->
                \E clock \in ClockReadings :
                    LET tmpl == MergeUpdate(t, op[p], clock)
                    IN  /\ now' = clock
                        /\ pc' = [pc EXCEPT ![p] = "write_open"]
                        /\ loc' = [loc EXCEPT ![p] = Locals(0, <<>>, tmpl)]
                        /\ writes' = writes \cup {Serialize(tmpl)}
                        /\ hist' = hist
          [] op[p].kind = "svc_create" /\ R.st = "NotFound" ->
                /\ pc' = [pc EXCEPT ![p] = "exists"]
                /\ loc' = [loc EXCEPT ![p] = NoLocals]
                /\ UNCHANGED <<now, writes, hist>>
          [] op[p].kind = "svc_create" /\ R.st = "ok" ->
                /\ Finish(p, "AlreadyExists", NoTemplate, dir, ino2)
                /\ UNCHANGED <<now, writes>>
          [] OTHER ->
                /\ Finish(p, R.st, t, dir, ino2)
                /\ UNCHANGED <<now, writes>>

\* async with aiofiles.open(file_path, mode='r')
ReadOpen(p) ==
    /\ pc[p] = "read_open"
    /\ IF PathOf(p) \in DOMAIN dir
       THEN /\ pc' = [pc EXCEPT ![p] = "read_read"]
            /\ loc' = [loc EXCEPT ![p] = Locals(dir[PathOf(p)], <<>>, NoTemplate)]
            /\ UNCHANGED <<now, writes, hist>>
       ELSE ReadDone(p, [st |-> "NotFound"], inodes)
    /\ UNCHANGED <<dir, inodes, op, nops, faults, call, deleted, ls>>

\* content = await f.read(), the file closed, the text parsed
ReadRead(p) ==
    /\ pc[p] = "read_read"
    /\ LET text == inodes[loc[p].fd].data
           ino2 == Gc(inodes, dir, OtherFds(p))
           R == ParseTemplate(text, PathOf(p), 0, FALSE)
       IN  /\ inodes' = ino2
           /\ IF R.st = "stat"
              THEN /\ pc' = [pc EXCEPT ![p] = "read_stat"]
                   /\ loc' = [loc EXCEPT ![p] = Locals(0, text, NoTemplate)]
                   /\ UNCHANGED <<now, writes, hist>>
              ELSE ReadDone(p, R, ino2)
    /\ UNCHANGED <<dir, op, nops, faults, call, deleted, ls>>

\* stat_result = await asyncio.to_thread(os.stat, file_path)
ReadStat(p) ==
    /\ pc[p] = "read_stat"
    /\ IF PathOf(p) \in DOMAIN dir
       THEN ReadDone(p, ParseTemplate(loc[p].text, PathOf(p),
                                      inodes[dir[PathOf(p)]].mtime, TRUE), inodes)
       ELSE ReadDone(p, [st |-> "NotFound"], inodes)
    /\ UNCHANGED <<dir, inodes, op, nops, faults, call, deleted, ls>>

\* repository.create past the existence check: the Template with created_at =
\* updated_at = now, handed to _write_template_file.
StartCreate(p) ==
    \E clock \in ClockReadings :
        LET tmpl == Template(op[p].title, op[p].content, op[p].description,
                             op[p].username, clock, clock)
        IN  /\ now' = clock
            /\ pc' = [pc EXCEPT ![p] = "write_open"]
            /\ loc' = [loc EXCEPT ![p] = Locals(0, <<>>, tmpl)]
            /\ writes' = writes \cup {Serialize(tmpl)}
            /\ hist' = hist

\* A create that skips the existence check.
ExistsUnchecked(p) ==
    /\ pc[p] = "exists"
    /\ StartCreate(p)
    /\ UNCHANGED <<dir, inodes, op, nops, faults, call, deleted, ls>>

\* repository.create: await asyncio.to_thread(file_path.exists)
Exists(p) ==
    /\ pc[p] = "exists"
    /\ IF PathOf(p) \in DOMAIN dir
       THEN /\ Finish(p, "AlreadyExists", NoTemplate, dir, inodes)
            /\ UNCHANGED <<now, writes>>
       ELSE StartCreate(p)
    /\ UNCHANGED <<dir, inodes, op, nops, faults, call, deleted, ls>>

\* _safe_write: aiofiles.open(temp_file_path, mode='w') creates the temporary
\* file or truncates the one that is there.
WriteOpen(p) ==
    /\ pc[p] = "write_open"
    /\ IF TempOf(p) \in DOMAIN dir
       THEN /\ dir' = dir
            /\ inodes' = [inodes EXCEPT ![dir[TempOf(p)]] = [data |-> <<>>, mtime |-> now]]
            /\ loc' = [loc EXCEPT ![p].fd = dir[TempOf(p)]]
       ELSE LET i == FreshInode(inodes)
            IN  /\ dir' = Put(dir, TempOf(p), i)
                /\ inodes' = Put(inodes, i, [data |-> <<>>, mtime |-> now])
                /\ loc' = [loc EXCEPT ![p].fd = i]
    /\ pc' = [pc EXCEPT ![p] = "write_flush"]
    /\ UNCHANGED <<now, op, nops, faults, call, hist, writes, deleted, ls>>

\* The inodes after `text` is written through the descriptor of p.
Flushed(p, text) ==
    [inodes EXCEPT ![loc[p].fd] = [data |-> Overwrite(@.data, text), mtime |-> now]]

\* _safe_write: await f.write(content) and the close of the file, which
\* flushes the buffered text to the file at offset 0.
WriteFlush(p) ==
    /\ pc[p] = "write_flush"
    /\ inodes' = Gc(Flushed(p, Serialize(loc[p].tmpl)), dir, OtherFds(p))
    /\ pc' = [pc EXCEPT ![p] = "replace"]
    /\ loc' = [loc EXCEPT ![p].fd = 0]
    /\ UNCHANGED <<dir, now, op, nops, faults, call, hist, writes, deleted, ls>>

\* _safe_write: await asyncio.to_thread(os.replace, temp_file_path, file_path);
\* create and update then return the Template.  A temporary file that is gone
\* makes os.replace raise FileNotFoundError, an OSError.
Replace(p) ==
    /\ pc[p] = "replace"
    /\ IF TempOf(p) \in DOMAIN dir
       THEN LET d2 == Put(Drop(dir, TempOf(p)), PathOf(p), dir[TempOf(p)])
                ino2 == Gc(inodes, d2, OtherFds(p))
            IN  /\ dir' = d2
                /\ inodes' = ino2
                /\ Finish(p, "ok", loc[p].tmpl, d2, ino2)
       ELSE /\ pc' = [pc EXCEPT ![p] = "cleanup_exists"]
            /\ UNCHANGED <<dir, inodes, loc, hist>>
    /\ UNCHANGED <<now, op, nops, faults, call, writes, deleted, ls>>

\* The file system fails a call of _safe_write with an OSError (no space, no
\* permission): the open, the write after part of the text, or the rename.
WriteFails(p) ==
    /\ pc[p] \in {"write_open", "write_flush", "replace"}
    /\ faults < MaxFaults
    /\ faults' = faults + 1
    /\ IF pc[p] = "write_flush"
       THEN LET content == Serialize(loc[p].tmpl)
            IN  /\ inodes' = Gc(Flushed(p, SubSeq(content, 1, Len(content) \div 2)),
                                dir, OtherFds(p))
                /\ loc' = [loc EXCEPT ![p].fd = 0]
       ELSE UNCHANGED <<inodes, loc>>
    /\ pc' = [pc EXCEPT ![p] = "cleanup_exists"]
    /\ UNCHANGED <<dir, now, op, nops, call, hist, writes, deleted, ls>>

\* _safe_write, except IOError: await asyncio.to_thread(temp_file_path.exists)
CleanupExists(p) ==
    /\ pc[p] = "cleanup_exists"
    /\ IF TempOf(p) \in DOMAIN dir
       THEN /\ pc' = [pc EXCEPT ![p] = "cleanup_remove"]
            /\ UNCHANGED <<loc, hist>>
       ELSE Finish(p, "IOError", NoTemplate, dir, inodes)
    /\ UNCHANGED <<dir, inodes, now, op, nops, faults, call, writes, deleted, ls>>

\* A delete that succeeds on a missing file.
RemoveMissingOk(p) ==
    /\ pc[p] = "remove"
    /\ LET d2 == Drop(dir, PathOf(p))
           ino2 == Gc(inodes, d2, OtherFds(p))
       IN  /\ dir' = d2
           /\ inodes' = ino2
           /\ deleted' = deleted \cup {PathOf(p)}
           /\ Finish(p, "ok", NoTemplate, d2, ino2)
    /\ UNCHANGED <<now, op, nops, faults, call, writes, ls>>

\* _safe_write, except IOError: await asyncio.to_thread(os.remove,
\* temp_file_path), its own OSError logged; then TemplateIOError is raised.
CleanupRemove(p) ==
    /\ pc[p] = "cleanup_remove"
    /\ LET d2 == Drop(dir, TempOf(p))
           ino2 == Gc(inodes, d2, OtherFds(p))
       IN  /\ dir' = d2
           /\ inodes' = ino2
           /\ Finish(p, "IOError", NoTemplate, d2, ino2)
    /\ UNCHANGED <<now, op, nops, faults, call, writes, deleted, ls>>

\* repository.delete: await asyncio.to_thread(os.remove, file_path)
Remove(p) ==
    /\ pc[p] = "remove"
    /\ IF PathOf(p) \in DOMAIN dir
       THEN LET d2 == Drop(dir, PathOf(p))
                ino2 == Gc(inodes, d2, OtherFds(p))
            IN  /\ dir' = d2
                /\ inodes' = ino2
                /\ deleted' = deleted \cup {PathOf(p)}
                /\ Finish(p, "ok", NoTemplate, d2, ino2)
       ELSE /\ Finish(p, "NotFound", NoTemplate, dir, inodes)
            /\ UNCHANGED <<dir, inodes, deleted>>
    /\ UNCHANGED <<now, op, nops, faults, call, writes, ls>>

\* One await of one coroutine completes.
Step(p) ==
    \/ ReadOpen(p)
    \/ ReadRead(p)
    \/ ReadStat(p)
    \/ Exists(p)
    \/ WriteOpen(p)
    \/ WriteFlush(p)
    \/ Replace(p)
    \/ CleanupExists(p)
    \/ CleanupRemove(p)
    \/ Remove(p)

\* ---------------------------------------------------------- specifications

\* A file the store did not write: plain Markdown without front matter.
ReadmeName == <<"r", ".md">>

ReadmeText == <<"h", "i">>

\* Everything but the directory, as the first request finds it.
InitRest ==
    /\ now = 0
    /\ pc = [p \in Procs |-> "idle"]
    /\ op = [p \in Procs |-> NoRequest]
    /\ loc = [p \in Procs |-> NoLocals]
    /\ nops = 0
    /\ faults = 0
    /\ call = [p \in Procs |-> [inv |-> 0, pre |-> EmptyFn]]
    /\ hist = <<>>
    /\ writes = {}
    /\ deleted = {}
    /\ ls = [p \in Procs |-> NoListing]

\* The repository of a directory that is empty, or holds the one file the
\* store did not write (__init__ creates the directory when it is missing).
Init ==
    /\ \E readme \in BOOLEAN :
          /\ dir = IF readme THEN Put(EmptyFn, ReadmeName, 1) ELSE EmptyFn
          /\ inodes = IF readme
                      THEN Put(EmptyFn, 1, [data |-> ReadmeText, mtime |-> 0])
                      ELSE EmptyFn
    /\ InitRest

\* The repository of an empty directory.
InitConc ==
    /\ dir = EmptyFn
    /\ inodes = EmptyFn
    /\ InitRest

AllIdle == \A p \in Procs : pc[p] = "idle"

\* Sequential use: a request is issued when the one before has returned.
InvokeSeq == AllIdle /\ \E r \in Requests : Invoke("p1", r)

\* What get_service() of the tool module raises when it fails:
\* FileSystemTemplateRepository.__init__ turns a failed mkdir into
\* TemplateIOError ("StoreInitError"); the names FileSystemTemplateRepository
\* and settings are bound in the module only when `from app.api.routes import
\* get_template_service` failed, and are a NameError otherwise.
GetServiceFailures == {"StoreInitError", "NameError"}

\* The tool calls in which get_service() may fail, one of each handler; the
\* kind names the handler, the store is not called.
ToolRequests ==
    { Request("tool_get", <<"a">>, Unset, Unset, Unset),
      Request("tool_delete", <<"a">>, Unset, Unset, Unset),
      Request("tool_register", <<"a">>, <<"x">>, <<>>, <<"u">>),
      Request("tool_update", <<"a">>, <<"y", "z">>, Unset, Unset) }

\* A tool handler is called and get_service() raises, ahead of the handler's
\* try: the service is never called and the directory is not touched.
GetServiceFails ==
    /\ AllIdle
    /\ nops < MaxOps
    /\ faults < MaxFaults
    /\ \E r \in ToolRequests, x \in GetServiceFailures :
          /\ op' = [op EXCEPT !["p1"] = r]
          /\ hist' = Append(hist, Entry("p1", r, x, NoTemplate, Stamp, Stamp + 1,
                                        View, View))
    /\ nops' = nops + 1
    /\ faults' = faults + 1
    /\ call' = [call EXCEPT !["p1"] = [inv |-> Stamp, pre |-> View]]
    /\ UNCHANGED <<dir, inodes, now, pc, loc, writes, deleted, ls>>

Next == InvokeSeq \/ GetServiceFails \/ \E p \in Procs : Step(p) \/ WriteFails(p)

Spec == Init /\ [][Next]_vars

\* Concurrent use on a healthy file system: requests arrive while others are
\* in flight, and take the first idle coroutine.
InvokeConc ==
    \E p \in Procs, r \in ConcRequests :
        /\ \A q \in Procs : (q = "p1" /\ p = "p2") => pc[q] # "idle"
        /\ Invoke(p, r)

NextConc == InvokeConc \/ \E p \in Procs : Step(p)

SpecConc == InitConc /\ [][NextConc]_vars

\* -------------------------------------------------------------------- list

\* TemplateService.list_templates: limit = max(1, min(limit, 100)),
\* offset = max(0, offset), before repository.list is called.
ClampLimit(limit) == IF limit < 1 THEN 1 ELSE IF limit > 100 THEN 100 ELSE limit

ClampOffset(offset) == IF offset < 0 THEN 0 ELSE offset

\* Path.suffix: the last extension of a file name.
Suffix(n) == IF n = <<>> THEN "" ELSE n[Len(n)]

\* An enumeration of every file of the directory.
GlobAll(d) == DOMAIN d

\* templates_dir.glob('*.md') without the names list skips.
GlobMd(d) == {n \in DOMAIN d : Suffix(n) = ".md" /\ Suffix(n) # ".tmp"}

\* The orders in which the directory can enumerate the names of S.
Enumerations(S) ==
    {f \in [1..Cardinality(S) -> S] : \A i, j \in 1..Cardinality(S) : f[i] = f[j] => i = j}

\* s[start:end] of Python.
PySlice(s, start, end) ==
    LET n == Len(s)
        norm(i) == IF i < 0 THEN (IF n + i < 0 THEN 0 ELSE n + i)
                   ELSE (IF i > n THEN n ELSE i)
    IN  SubSeq(s, norm(start) + 1, norm(end))

\* sorted with t put behind every element whose updated_at is not smaller.
InsertDesc(sorted, t) ==
    LET ahead == {i \in 1..Len(sorted) : sorted[i].updated_at >= t.updated_at}
        k == IF ahead = {} THEN 0 ELSE CHOOSE i \in ahead : \A j \in ahead : j <= i
    IN  SubSeq(sorted, 1, k) \o <<t>> \o SubSeq(sorted, k + 1, Len(sorted))

RECURSIVE SortDesc(_)
\* list.sort(key=lambda t: t.updated_at, reverse=True): stable, equal keys
\* keep their order.
SortDesc(s) ==
    IF s = <<>> THEN <<>>
    ELSE InsertDesc(SortDesc(SubSeq(s, 1, Len(s) - 1)), s[Len(s)])

RECURSIVE TemplatesUntilError(_)
\* The Templates ahead of the first result that is an exception.
TemplatesUntilError(results) ==
    IF results = <<>> \/ Head(results).st # "ok" THEN <<>>
    ELSE <<Head(results).t>> \o TemplatesUntilError(Tail(results))

RECURSIVE TemplatesOf(_)
\* valid_templates: the results that are Templates, in their order.
TemplatesOf(results) ==
    IF results = <<>> THEN <<>>
    ELSE (IF Head(results).st = "ok" THEN <<Head(results).t>> ELSE <<>>)
         \o TemplatesOf(Tail(results))

\* `if username:` of list: the filter is applied when it is a non-empty str.
Truthy(username) == username # Unset /\ username # NoneV /\ username # <<>>

\* list after the gather: the Templates among the results, filtered by
\* username, sorted, sliced.
PageOf(results, limit, offset, username) ==
    LET valid_templates == TemplatesOf(results)
        pass(t) == t.username = username
        filtered_templates == IF Truthy(username)
                              THEN SelectSeq(valid_templates, pass)
                              ELSE valid_templates
    IN  PySlice(SortDesc(filtered_templates), offset, offset + limit)

\* A result of asyncio.gather(..., return_exceptions=True).
Result(st, t) == [st |-> st, t |-> t]

\* list_templates(limit, offset, username) arrives at an idle coroutine; the
\* service clamps limit and offset and repository.list suspends at the glob.
InvokeList(p, limit, offset, username) ==
    /\ pc[p] = "idle"
    /\ nops < MaxOps
    /\ nops' = nops + 1
    /\ op' = [op EXCEPT ![p] = Request("list", <<>>, Unset, Unset, username)]
    /\ call' = [call EXCEPT ![p] = [inv |-> Stamp, pre |-> View]]
    /\ ls' = [ls EXCEPT ![p] = Listing(ClampLimit(limit), ClampOffset(offset),
                                       <<>>, <<>>, <<>>)]
    /\ pc' = [pc EXCEPT ![p] = "list_glob"]
    /\ UNCHANGED <<dir, inodes, now, loc, faults, hist, writes, deleted>>

\* One read of the gather is over with result R (ino2: the inodes it leaves).
\* After the last one list filters, sorts, slices and returns.
ListResult(p, R, ino2) ==
    LET results == Append(ls[p].results, R)
        page == PageOf(results, ls[p].limit, ls[p].offset, op[p].username)
    IN  IF Len(results) < Len(ls[p].all_files)
        THEN /\ ls' = [ls EXCEPT ![p].results = results]
             /\ pc' = [pc EXCEPT ![p] = "list_open"]
             /\ loc' = [loc EXCEPT ![p] = NoLocals]
             /\ hist' = hist
        ELSE /\ ls' = [ls EXCEPT ![p].results = results, ![p].templates = page]
             /\ Finish(p, "ok", NoTemplate, dir, ino2)

\* The file the gather reads next.
ListPath(p) == ls[p].all_files[Len(ls[p].results) + 1]

\* all_files = await asyncio.to_thread(lambda: list(templates_dir.glob('*.md')))
ListGlob(p) ==
    /\ pc[p] = "list_glob"
    /\ \E files \in Enumerations(GlobMd(dir)) :
          IF files = <<>>
          THEN /\ ls' = ls
               /\ Finish(p, "ok", NoTemplate, dir, inodes)
          ELSE /\ ls' = [ls EXCEPT ![p].all_files = files]
               /\ pc' = [pc EXCEPT ![p] = "list_open"]
               /\ UNCHANGED <<loc, hist>>
    /\ UNCHANGED <<dir, inodes, now, op, nops, faults, call, writes, deleted>>

\* _read_template_file of the gather: aiofiles.open(file_path, mode='r')
ListOpen(p) ==
    /\ pc[p] = "list_open"
    /\ IF ListPath(p) \in DOMAIN dir
       THEN /\ pc' = [pc EXCEPT ![p] = "list_read"]
            /\ loc' = [loc EXCEPT ![p] = Locals(dir[ListPath(p)], <<>>, NoTemplate)]
            /\ UNCHANGED <<ls, hist>>
       ELSE ListResult(p, Result("NotFound", NoTemplate), inodes)
    /\ UNCHANGED <<dir, inodes, now, op, nops, faults, call, writes, deleted>>

\* _read_template_file of the gather: await f.read(), the close, the parse
ListRead(p) ==
    /\ pc[p] = "list_read"
    /\ LET text == inodes[loc[p].fd].data
           ino2 == Gc(inodes, dir, OtherFds(p))
           R == ParseTemplate(text, ListPath(p), 0, FALSE)
       IN  /\ inodes' = ino2
           /\ IF R.st = "stat"
              THEN /\ pc' = [pc EXCEPT ![p] = "list_stat"]
                   /\ loc' = [loc EXCEPT ![p] = Locals(0, text, NoTemplate)]
                   /\ UNCHANGED <<ls, hist>>
              ELSE ListResult(p, Result(R.st, IF R.st = "ok" THEN R.t ELSE NoTemplate),
                              ino2)
    /\ UNCHANGED <<dir, now, op, nops, faults, call, writes, deleted>>

\* _read_template_file of the gather: os.stat(file_path)
ListStat(p) ==
    /\ pc[p] = "list_stat"
    /\ IF ListPath(p) \in DOMAIN dir
       THEN LET R == ParseTemplate(loc[p].text, ListPath(p),
                                   inodes[dir[ListPath(p)]].mtime, TRUE)
            IN  ListResult(p, Result(R.st, IF R.st = "ok" THEN R.t ELSE NoTemplate),
                           inodes)
       ELSE ListResult(p, Result("NotFound", NoTemplate), inodes)
    /\ UNCHANGED <<dir, inodes, now, op, nops, faults, call, writes, deleted>>

\* _safe_write, except Exception: f.write(content) raises an error that is no
\* OSError (a content that cannot be encoded as UTF-8): TemplateIOError is
\* raised and the temporary file, still empty, stays behind.
WriteRaises(p) ==
    /\ pc[p] = "write_flush"
    /\ faults < MaxFaults
    /\ faults' = faults + 1
    /\ inodes' = Gc(inodes, dir, OtherFds(p))
    /\ Finish(p, "IOError", NoTemplate, dir, inodes')
    /\ UNCHANGED <<dir, now, op, nops, call, writes, deleted, ls>>

\* The files list finds at the three keys.  a.md holds a record; b.md and c.md
\* may be absent or hold a record; c.md may also hold a preamble that is no
\* mapping, or one whose title is null.
Absent == <<"<absent>">>

Unparsable == <<"---", "\n", "title:", "c", "title:", "\n", "---", "\n", "\n", "y">>

Mistyped == <<"---", "\n", "title:", "null", "\n", "---", "\n", "\n", "y">>

ListNames == <<TitleToFilename(<<"a">>), TitleToFilename(<<"b">>), TitleToFilename(<<"c">>)>>

ListFiles ==
    << {Serialize(Template(<<"a">>, <<"x">>, <<>>, <<"u">>, 0, 0)),
        Serialize(Template(<<"a">>, <<"x">>, <<>>, <<"v">>, 0, 3))},
       {Absent,
        Serialize(Template(<<"b">>, <<"x">>, <<>>, <<"u">>, 1, 1))},
       {Absent,
        Serialize(Template(<<"c">>, <<"x">>, <<>>, <<"u">>, 1, 2)),
        Unparsable,
        Mistyped} >>

\* list_templates arguments <<limit, offset>> of the caller, and the username
\* filters (Unset: None).
ListArgs == {<<2, 0>>, <<1, 1>>, <<0, -1>>}

ListFilters == {Unset, <<"u">>, <<>>}

\* What the other coroutine does while list runs.
ListConcRequests ==
    { Request("delete", <<"a">>, Unset, Unset, Unset),
      Request("create", <<"b">>, <<"x">>, <<>>, <<"u">>) }

\* A directory of files written some time ago (mtime 1), the clock at its
\* last instant.
InitList ==
    /\ \E texts \in [1..3 -> UNION {ListFiles[i] : i \in 1..3}] :
          LET present == {i \in 1..3 : texts[i] # Absent}
          IN  /\ \A i \in 1..3 : texts[i] \in ListFiles[i]
              /\ dir = [n \in {ListNames[i] : i \in present} |->
                           CHOOSE i \in present : ListNames[i] = n]
              /\ inodes = [i \in present |-> [data |-> texts[i], mtime |-> 1]]
    /\ now = MaxClock
    /\ pc = [p \in Procs |-> "idle"]
    /\ op = [p \in Procs |-> NoRequest]
    /\ loc = [p \in Procs |-> NoLocals]
    /\ nops = 0
    /\ faults = 0
    /\ call = [p \in Procs |-> [inv |-> 0, pre |-> EmptyFn]]
    /\ hist = <<>>
    /\ writes = {}
    /\ deleted = {}
    /\ ls = [p \in Procs |-> NoListing]

\* One list on p1, and at most one other request on p2, at any time.
InvokeListing ==
    /\ op["p1"].kind = "none"
    /\ \E a \in ListArgs, f \in ListFilters : InvokeList("p1", a[1], a[2], f)

InvokeOther ==
    /\ op["p2"].kind = "none"
    /\ \E r \in ListConcRequests : Invoke("p2", r)

NextList ==
    \/ InvokeListing
    \/ InvokeOther
    \/ \E p \in Procs :
          \/ ListGlob(p) \/ ListOpen(p) \/ ListRead(p) \/ ListStat(p)
          \/ Exists(p)
          \/ WriteOpen(p) \/ WriteFlush(p) \/ WriteRaises(p) \/ Replace(p)
          \/ Remove(p)

SpecList == InitList /\ [][NextList]_vars

\* ------------------------------------------------------ the codec by itself

\* Records with well-formed fields: a non-empty title, any text as content
\* (blank at either end, empty, or holding the delimiter), any text as
\* description and username, created_at no later than updated_at.
Records ==
    LET all == {Template(ti, c, d, u, ca, ua) :
                   ti \in {<<"a">>, <<"A", " ", "b">>},
                   c \in {<<>>, <<"x">>, <<"x", " ", "y">>, <<" ", "x">>, <<"x", "\n">>,
                          <<"x", "---", "y">>},
                   d \in {<<>>, <<"d">>, <<" ", "d">>},
                   u \in {<<"u">>, <<"a", "n", "o", "n", "y", "m", "o", "u", "s">>},
                   ca \in Instants, ua \in Instants}
    IN  {r \in all : r.created_at <= r.updated_at}

\* A record is about to be handed to _write_template_file.
InitCodec ==
    /\ dir = EmptyFn
    /\ inodes = EmptyFn
    /\ now = 0
    /\ \E r \in Records :
          /\ op = [p \in Procs |-> IF p = "p1"
                                   THEN Request("roundtrip", r.title, r.content,
                                                r.description, r.username)
                                   ELSE NoRequest]
          /\ loc = [p \in Procs |-> IF p = "p1" THEN Locals(0, <<>>, r) ELSE NoLocals]
    /\ pc = [p \in Procs |-> IF p = "p1" THEN "serialize" ELSE "idle"]
    /\ nops = 1
    /\ faults = 0
    /\ call = [p \in Procs |-> [inv |-> 0, pre |-> EmptyFn]]
    /\ hist = <<>>
    /\ writes = {}
    /\ deleted = {}
    /\ ls = [p \in Procs |-> NoListing]

\* _write_template_file builds file_content.
CodecSerialize(p) ==
    /\ pc[p] = "serialize"
    /\ loc' = [loc EXCEPT ![p].text = Serialize(loc[p].tmpl)]
    /\ writes' = writes \cup {Serialize(loc[p].tmpl)}
    /\ pc' = [pc EXCEPT ![p] = "parse"]
    /\ UNCHANGED <<dir, inodes, now, op, nops, faults, call, hist, deleted, ls>>

\* _read_template_file parses that content (the file's mtime is the instant
\* of the write); the history keeps what it returned or raised.
CodecParse(p) ==
    /\ pc[p] = "parse"
    /\ LET R == ParseTemplate(loc[p].text, PathOf(p), loc[p].tmpl.updated_at, TRUE)
       IN  hist' = Append(hist, Entry(p, op[p], R.st,
                                      IF R.st = "ok" THEN R.t ELSE NoTemplate,
                                      call[p].inv, Stamp, EmptyFn, EmptyFn))
    /\ pc' = [pc EXCEPT ![p] = "idle"]
    /\ UNCHANGED <<dir, inodes, now, op, loc, nops, faults, call, writes, deleted, ls>>

NextCodec == \E p \in Procs : CodecSerialize(p) \/ CodecParse(p)

SpecCodec == InitCodec /\ [][NextCodec]_vars

\* create_template (routes.py): the HTTP status of an outcome.
StatusCode(st) ==
    CASE st = "ok" -> 201
      [] st = "AlreadyExists" -> 409
      [] st = "ValidationError" -> 422
      [] OTHER -> 500

\* ------------------------------------------------------ keying by itself

\* The longest title made of the characters of KeyAlphabet.
MaxTitleLen == 3

\* Characters of titles: letters of both cases, a compatibility letter, white
\* space, a compatibility space, and separators.
KeyAlphabet == {"a", "A", "U+FF21", " ", "U+3000", "_", ".", "?"}

\* n letters "a".
Fill(n) == [i \in 1..n |-> "a"]

\* Titles around the length at which _sanitize_filename truncates.
LongTitles ==
    {Fill(n) \o tail : n \in {max_len - 2, max_len - 1, max_len},
                       tail \in {<<>>, <<" ">>, <<"A">>, <<" ", "A">>, <<"_", "_", "A">>,
                                 <<"?", " ", "a">>}}

\* The titles _title_to_filename is applied to.
KeyTitles ==
    UNION {[1..n -> KeyAlphabet] : n \in 0..MaxTitleLen} \cup LongTitles

\* A title is about to be handed to _title_to_filename.
InitKey ==
    /\ dir = EmptyFn
    /\ inodes = EmptyFn
    /\ now = 0
    /\ \E title \in KeyTitles :
          op = [p \in Procs |-> IF p = "p1"
                                THEN Request("derive_key", title, Unset, Unset, Unset)
                                ELSE NoRequest]
    /\ loc = [p \in Procs |-> NoLocals]
    /\ pc = [p \in Procs |-> IF p = "p1" THEN "sanitize" ELSE "idle"]
    /\ nops = 1
    /\ faults = 0
    /\ call = [p \in Procs |-> [inv |-> 0, pre |-> EmptyFn]]
    /\ hist = <<>>
    /\ writes = {}
    /\ deleted = {}
    /\ ls = [p \in Procs |-> NoListing]

\* _title_to_filename calls _sanitize_filename(title).
KeySanitize(p) ==
    /\ pc[p] = "sanitize"
    /\ loc' = [loc EXCEPT ![p].text = SanitizeFilename(op[p].title)]
    /\ pc' = [pc EXCEPT ![p] = "extension"]
    /\ UNCHANGED <<dir, inodes, now, op, nops, faults, call, hist, writes, deleted, ls>>

\* _title_to_filename appends ".md" and returns the key.
KeyExtension(p) ==
    /\ pc[p] = "extension"
    /\ loc' = [loc EXCEPT ![p].text = TitleToFilename(op[p].title)]
    /\ pc' = [pc EXCEPT ![p] = "idle"]
    /\ UNCHANGED <<dir, inodes, now, op, nops, faults, call, hist, writes, deleted, ls>>

NextKey == \E p \in Procs : KeySanitize(p) \/ KeyExtension(p)

SpecKey == InitKey /\ [][NextKey]_vars

\* ----------------------------------------------- reading files as found

\* The forms of a timestamp line of a preamble: no line, a quoted timestamp,
\* a plain one (YAML resolves it to a datetime), a str that is no timestamp,
\* an int, null, the empty str.
TsForms ==
    { Absent, <<"'", "1", "'">>, <<"1">>, <<"z">>, <<"42">>, <<"null">>, <<"'", "'">> }

\* A file with title a, the timestamp lines of the forms c and u, content y.
TsFile(c, u) ==
    LET line(k, v) == IF v = Absent THEN <<>> ELSE <<k>> \o v \o <<"\n">>
    IN  <<"---", "\n", "title:", "a", "\n">>
        \o line("created_at:", c) \o line("updated_at:", u)
        \o <<"---", "\n", "\n", "y">>

\* Files without a preamble, with one delimiter only, with a delimiter that
\* is not at the start, and with a block that is no mapping (a duplicated key
\* on one line, a plain scalar).
PlainFiles ==
    { <<>>, <<"y">>, <<"y", "\n">>, <<"y", "---", "z", "---">>, <<"---", "\n", "y">>,
      Unparsable,
      <<"---", "\n", "x", "\n", "---", "\n", "\n", "y">>,
      <<"---", "\n", "---", "\n", "\n", "y">> }

\* What the file a.md holds when a request finds it.
ReadFiles == {TsFile(c, u) : c \in TsForms, u \in TsForms} \cup PlainFiles \cup {Absent}

\* The requests made on it.
ReadRequests ==
    { Request("get", <<"a">>, Unset, Unset, Unset),
      Request("create", <<"a">>, <<"x">>, <<>>, <<"u">>),
      Request("svc_create", <<"a">>, <<"x">>, <<>>, <<"u">>) }

\* A directory with a.md as someone left it (or without it), last modified
\* at instant 1 or 2.
InitRead ==
    /\ \E text \in ReadFiles, mtime \in 1..2 :
          /\ dir = IF text = Absent THEN EmptyFn
                   ELSE Put(EmptyFn, TitleToFilename(<<"a">>), 1)
          /\ inodes = IF text = Absent THEN EmptyFn
                      ELSE Put(EmptyFn, 1, [data |-> text, mtime |-> mtime])
    /\ now = MaxClock
    /\ pc = [p \in Procs |-> "idle"]
    /\ op = [p \in Procs |-> NoRequest]
    /\ loc = [p \in Procs |-> NoLocals]
    /\ nops = 0
    /\ faults = 0
    /\ call = [p \in Procs |-> [inv |-> 0, pre |-> EmptyFn]]
    /\ hist = <<>>
    /\ writes = {}
    /\ deleted = {}
    /\ ls = [p \in Procs |-> NoListing]

\* One request in a behaviour.
InvokeRead ==
    /\ op["p1"].kind = "none"
    /\ \E r \in ReadRequests : Invoke("p1", r)

NextRead ==
    \/ InvokeRead
    \/ \E p \in Procs :
          \/ ReadOpen(p) \/ ReadRead(p) \/ ReadStat(p)
          \/ Exists(p)
          \/ WriteOpen(p) \/ WriteFlush(p) \/ Replace(p)

SpecRead == InitRead /\ [][NextRead]_vars

\* ------------------------------------------------- writes that may fail

\* Creates and updates of one key, issued one after the other, while the file
\* system or the encoder may fail one call of _safe_write.
WriteRequests ==
    { Request("create", <<"a">>, <<"x">>, <<>>, <<"u">>),
      Request("create", <<"A">>, <<"y", "z">>, <<"d">>, <<"v">>),
      Request("update", <<"a">>, <<"y", "z">>, Unset, Unset),
      Request("update", <<"a">>, Unset, <<"d">>, <<"v">>) }

\* The directory is empty or holds the record of "a".
InitWrite ==
    /\ \E stored \in BOOLEAN :
          /\ dir = IF stored THEN Put(EmptyFn, TitleToFilename(<<"a">>), 1) ELSE EmptyFn
          /\ inodes = IF stored
                      THEN Put(EmptyFn, 1,
                               [data |-> Serialize(Template(<<"a">>, <<"w">>, <<>>, <<"u">>, 0, 0)),
                                mtime |-> 0])
                      ELSE EmptyFn
    /\ InitRest

InvokeWrite == AllIdle /\ \E r \in WriteRequests : Invoke("p1", r)

NextWrite ==
    \/ InvokeWrite
    \/ \E p \in Procs :
          \/ ReadOpen(p) \/ ReadRead(p)
          \/ Exists(p)
          \/ WriteOpen(p) \/ WriteFlush(p) \/ Replace(p)
          \/ WriteFails(p) \/ WriteRaises(p)
          \/ CleanupExists(p) \/ CleanupRemove(p)

SpecWrite == InitWrite /\ [][NextWrite]_vars

\* -------------------------------------------------------------- front ends

\* The HTTP routes and the tool handlers.
FrontEnds == {"http", "tool"}

\* The classes the exception of an outcome is an instance of:
\* TemplateNotFoundError, TemplateAlreadyExistsError and
\* TemplateValidationError derive from TemplateServiceError, TemplateIOError
\* from RepositoryError.
ClassesOf(st) ==
    CASE st \in {"NotFound", "AlreadyExists", "ValidationError"} ->
             {st, "TemplateServiceError", "Exception"}
      [] st \in {"IOError", "StoreInitError"} ->
             {"IOError", "RepositoryError", "Exception"}
      [] OTHER -> {st, "Exception"}

\* One except clause: the classes it names and what its body answers.
Clause(classes, response) == [classes |-> classes, response |-> response]

RECURSIVE Catch(_, _)
\* try ... except: the answer of the first clause the exception is an
\* instance of, "raise" when there is none.
Catch(clauses, st) ==
    IF clauses = <<>> THEN "raise"
    ELSE IF Head(clauses).classes \cap ClassesOf(st) # {}
         THEN Head(clauses).response
         ELSE Catch(Tail(clauses), st)

\* `except (TemplateIOError, TemplateServiceError)` of the handlers.
ErrorClause(response) == Clause({"IOError", "TemplateServiceError"}, response)

\* The except clauses of the route of a request kind, in their order.
RouteClauses(kind) ==
    CASE kind \in {"create", "svc_create"} ->
             << Clause({"AlreadyExists"}, "409"),
                Clause({"ValidationError"}, "422"),
                ErrorClause("500") >>
      [] kind = "update" ->
             << Clause({"NotFound"}, "404"),
                Clause({"ValidationError"}, "422"),
                ErrorClause("500") >>
      [] kind \in {"get", "delete"} ->
             << Clause({"NotFound"}, "404"),
                ErrorClause("500") >>
      [] OTHER -> << ErrorClause("500") >>

\* The except clauses of the tool handler of a request kind, in their order.
ToolClauses(kind) ==
    CASE kind \in {"create", "svc_create"} ->
             << Clause({"AlreadyExists"}, "Template already exists"),
                Clause({"ValidationError"}, "Validation Error"),
                ErrorClause("Internal Server Error"),
                Clause({"Exception"}, "Unexpected Error") >>
      [] kind = "update" ->
             << Clause({"NotFound"}, "Template not found"),
                Clause({"ValidationError"}, "Validation Error"),
                ErrorClause("Internal Server Error"),
                Clause({"Exception"}, "Unexpected Error") >>
      [] kind \in {"get", "delete"} ->
             << Clause({"NotFound"}, "Template not found"),
                ErrorClause("Internal Server Error"),
                Clause({"Exception"}, "Unexpected Error") >>
      [] OTHER ->
             << ErrorClause("Internal Server Error"),
                Clause({"Exception"}, "Unexpected Error") >>

\* Whether request r with outcome st is one the front end hands to the
\* service.  The routes take the title of get, update and delete from the
\* path /{title}, which is never empty; update_template of the tools answers
\* by itself when no field is provided; get_service() is the tools'.
Routable(fe, r, st) ==
    IF fe = "http"
    THEN /\ st \notin GetServiceFailures
         /\ r.kind \in {"get", "update", "delete"} => r.title # <<>>
    ELSE r.kind = "update" =>
             \E v \in {r.content, r.description, r.username} : v \notin {Unset, NoneV}

\* update_template of the tools: TemplateUpdate(content=content,
\* description=description, username=username), all three fields set, None
\* for an argument the caller left out.
ToolUpdate(title, content, description, username) ==
    LET arg(v) == IF v = Unset THEN NoneV ELSE v
    IN  Request("update", title, arg(content), arg(description), arg(username))

\* Whether the front end makes the update request r from what its caller
\* gave: the PUT route passes the body as it was parsed; the tool passes r
\* when r is a ToolUpdate of its arguments.
Carries(fe, r) ==
    /\ r.kind = "update"
    /\ Routable(fe, r, "ok")
    /\ fe = "tool" => r = ToolUpdate(r.title, r.content, r.description, r.username)

\* Whether the caller of the front end provided the field whose value in the
\* request is v: a member of the PUT body, an argument of the tool that is
\* not None.
Provided(fe, v) == IF fe = "http" THEN v # Unset ELSE v \notin {Unset, NoneV}

\* What the front end answers for a request of a kind whose service call had
\* outcome st: the status of the HTTPException, the "error" of the tool's
\* dictionary, "success", or "raise" when the exception leaves the handler.
Response(fe, kind, st) ==
    IF st = "ok" THEN "success"
    ELSE IF fe = "tool"
         THEN IF st \in GetServiceFailures THEN "raise"
              ELSE Catch(ToolClauses(kind), st)
         ELSE LET c == Catch(RouteClauses(kind), st)
              IN  IF c = "raise" THEN "500" ELSE c

\* delete_template of the tools: the dictionary it returns for the outcome st
\* of service.delete_template (the message is the text the handler formats).
ToolDeleteResult(st) ==
    IF st = "ok"
    THEN [status |-> "success", message |-> "deleted successfully"]
    ELSE [error |-> Response("tool", "delete", st), message |-> st]

\* ------------------------------------------------------------------ claims

\* A name of the directory that is a key path (a record's file), not a
\* temporary file.
IsKeyPath(n) == Len(n) >= 1 /\ n[Len(n)] = ".md"

\* Two completed requests that were in flight at the same time.
Overlap(e1, e2) == e1.inv < e2.ret /\ e2.inv < e1.ret

\* The completed requests, by their position in the history.
Done == 1..Len(hist)

\* C1: under every interleaving of store operations, two writers of one key
\* included, the file at a key path holds a complete text that was handed to
\* the atomic write: whatever a reader opens there is never a partial file.
C1_NoPartialFile ==
    \A n \in DOMAIN dir : IsKeyPath(n) => inodes[dir[n]].data \in writes

\* The first two requests of the behaviour were in flight together, both of
\* kind k, for one key, and both have returned.
TwoConcurrent(k) ==
    /\ nops = 2
    /\ Len(hist) = 2
    /\ hist[1].op.kind = k
    /\ hist[2].op.kind = k
    /\ TitleToFilename(hist[1].op.title) = TitleToFilename(hist[2].op.title)
    /\ Overlap(hist[1], hist[2])

\* C2: when two creates of one title are in flight together on a store that
\* does not hold the title, exactly one is answered 201 Created and the other
\* 409 Conflict.
C2_OneCreated ==
    (TwoConcurrent("svc_create") /\ hist[1].op.title = hist[2].op.title)
        => {StatusCode(hist[1].st), StatusCode(hist[2].st)} = {201, 409}

\* C3: when two creates of one key are in flight together and both pass the
\* existence check, both return without error, and the file at the key then
\* holds the complete record of the one whose rename came last.
C3_LastRenameWins ==
    (/\ TwoConcurrent("create")
     /\ hist[1].st # "AlreadyExists"
     /\ hist[2].st # "AlreadyExists")
        => /\ hist[1].st = "ok"
           /\ hist[2].st = "ok"
           /\ View[TitleToFilename(hist[2].op.title)] = Serialize(hist[2].t)

\* C5: in every interleaving, an update in flight included, a key that a
\* delete removed stays absent from the directory until a create of that key
\* is issued after the delete.
C5_DeleteIrreversible == \A path \in deleted : path \notin DOMAIN dir

\* The key of a completed request; the empty title, rejected ahead of
\* _title_to_filename, has none (<<>>).
KeyOf(e) == IF e.op.title = <<>> THEN <<>> ELSE TitleToFilename(e.op.title)

\* The record the file at `path` held in the directory view `view`, as
\* _read_template_file reads it.
Held(view, path) == ParseTemplate(view[path], path, 0, FALSE)

\* The completed requests of kind k that returned st.
Returned(k, st) == {i \in Done : hist[i].op.kind = k /\ hist[i].st = st}

\* No request between positions i and j of the history is of a kind in
\* `kinds` for the key of request i.
NoneBetween(i, j, kinds) ==
    \A k \in (i + 1)..(j - 1) :
        ~(hist[k].op.kind \in kinds /\ KeyOf(hist[k]) = KeyOf(hist[i]))

\* C4: after a successful create(t1), a later create(t2) with the key of t1
\* (the same title or one that sanitizes alike) and no delete in between
\* fails with AlreadyExists and leaves the directory as it found it; right
\* after the first create the file still holds the first record.
C4_SecondCreateFails ==
    \A i \in Returned("create", "ok"), j \in Done :
        (/\ i < j
         /\ hist[j].op.kind = "create"
         /\ KeyOf(hist[j]) = KeyOf(hist[i])
         /\ NoneBetween(i, j, {"delete"}))
            => /\ hist[j].st = "AlreadyExists"
               /\ hist[j].post = hist[j].pre
               /\ (j = i + 1 => hist[j].post[KeyOf(hist[i])] = Serialize(hist[i].t))

\* C4 happens: a create of a textually different title with the same key came
\* right after a successful create.
C4_Witness ==
    \E i \in Returned("create", "ok") :
        /\ i + 1 \in Returned("create", "AlreadyExists")
        /\ KeyOf(hist[i + 1]) = KeyOf(hist[i])
        /\ hist[i + 1].op.title # hist[i].op.title

\* C6: in a sequential run, a successful delete(t) followed by get(t) makes
\* the get fail with NotFound, and the key's file is no longer in the
\* directory.
C6_DeleteThenGet ==
    \A i \in Returned("delete", "ok") :
        (/\ i + 1 \in Done
         /\ hist[i + 1].op.kind = "get"
         /\ KeyOf(hist[i + 1]) = KeyOf(hist[i]))
            => /\ hist[i + 1].st = "NotFound"
               /\ KeyOf(hist[i]) \notin DOMAIN hist[i].post
               /\ KeyOf(hist[i]) \notin DOMAIN hist[i + 1].post

\* C6 happens: a get of the title came right after its successful delete.
C6_Witness ==
    \E i \in Returned("delete", "ok") :
        /\ i + 1 \in Done
        /\ hist[i + 1].op.kind = "get"
        /\ hist[i + 1].op.title = hist[i].op.title

\* The successful updates, each with the record its file held at the call
\* (old), the record it returned (new) and its request (r).
Updates == Returned("update", "ok")

Old(i) == Held(hist[i].pre, KeyOf(hist[i])).t

\* The update returned the record new and stored it at its key.
ReturnsAndStores(i) == hist[i].post[KeyOf(hist[i])] = Serialize(hist[i].t)

\* An update that supplies content only.
ContentOnly(r) == r.content # Unset /\ r.description = Unset /\ r.username = Unset

\* C7: an update that supplies only content returns and stores a record whose
\* description and owner are the ones held before, and whose updated_at is
\* strictly greater than the updated_at held before.
C7_ContentOnlyUpdate ==
    \A i \in Updates :
        ContentOnly(hist[i].op)
            => /\ ReturnsAndStores(i)
               /\ hist[i].t.description = Old(i).description
               /\ hist[i].t.username = Old(i).username
               /\ hist[i].t.updated_at > Old(i).updated_at

\* C8 as stated: each of content, description and owner that the partial
\* update supplies is applied, the empty string and null included, and a field
\* that is absent keeps its old value.
C8_SuppliedApplied ==
    \A i \in Updates :
        LET r == hist[i].op
            new == hist[i].t
        IN  /\ new.content = IF r.content # Unset THEN r.content ELSE Old(i).content
            /\ new.description =
                   IF r.description # Unset THEN r.description ELSE Old(i).description
            /\ new.username = IF r.username # Unset THEN r.username ELSE Old(i).username

\* C8, amended: a supplied content or description is applied, the empty string
\* and null included; a supplied owner is applied unless it is null; a null
\* owner and every absent field keep the old value; the merged record is the
\* one returned and stored.
C8_MergeSupplied ==
    \A i \in Updates :
        LET r == hist[i].op
            new == hist[i].t
        IN  /\ ReturnsAndStores(i)
            /\ new.content = IF r.content # Unset THEN r.content ELSE Old(i).content
            /\ new.description =
                   IF r.description # Unset THEN r.description ELSE Old(i).description
            /\ new.username = IF r.username \notin {Unset, NoneV}
                              THEN r.username ELSE Old(i).username

\* C8 happens: one update supplied a null owner, another a null or empty
\* content or description.
C8_Witness ==
    /\ \E i \in Updates : hist[i].op.username = NoneV
    /\ \E i \in Updates :
          hist[i].op.content \in {NoneV, <<>>} \/ hist[i].op.description \in {NoneV, <<>>}

\* C9: a successful update leaves created_at and title of the stored record
\* unchanged and overwrites the same key: the directory holds the same keys
\* before and after, and no other key's file is modified.
C9_UpdateInPlace ==
    \A i \in Updates :
        LET e == hist[i]
        IN  /\ ReturnsAndStores(i)
            /\ e.t.created_at = Old(i).created_at
            /\ e.t.title = Old(i).title
            /\ DOMAIN e.post = DOMAIN e.pre
            /\ \A n \in DOMAIN e.pre : n # KeyOf(e) => e.post[n] = e.pre[n]

\* C9 happens: an update, at a later instant than the create, rewrote its file
\* in a directory that holds another file as well.
C9_Witness ==
    \E i \in Updates :
        /\ hist[i].t.updated_at > hist[i].t.created_at
        /\ hist[i].post[KeyOf(hist[i])] # hist[i].pre[KeyOf(hist[i])]
        /\ Cardinality(DOMAIN hist[i].pre) >= 2

\* C10: a create on an absent key followed by a get of its title, with no
\* update in between, returns a record whose created_at and updated_at both
\* equal the timestamp the create set.
C10_CreateThenGet ==
    \A i \in Returned("create", "ok"), j \in Done :
        (/\ i < j
         /\ hist[j].op.kind = "get"
         /\ hist[j].op.title = hist[i].op.title
         /\ NoneBetween(i, j, {"update", "delete"}))
            => /\ hist[j].st = "ok"
               /\ hist[j].t.created_at = hist[i].t.created_at
               /\ hist[j].t.updated_at = hist[i].t.created_at

\* C10 happens: a get returned the record of a create that read a clock past
\* its start.
C10_Witness ==
    \E i \in Returned("create", "ok") :
        /\ i + 1 \in Returned("get", "ok")
        /\ hist[i + 1].op.title = hist[i].op.title
        /\ hist[i].t.created_at > 0

\* C11: for every record with well-formed fields, parsing the text that
\* serializing it produced returns a record with the same title, content,
\* description and owner and the same created_at and updated_at.
C11_RoundTrip ==
    \A i \in Returned("roundtrip", "ok") \cup Returned("roundtrip", "IOError") :
        /\ hist[i].st = "ok"
        /\ hist[i].t = loc[hist[i].proc].tmpl

\* The coroutines whose list has returned; ls[p].templates is what it returned.
Listed == {p \in Procs : op[p].kind = "list" /\ pc[p] = "idle"}

\* The elements of a sequence.
Range(s) == {s[i] : i \in DOMAIN s}

\* C12: when an owner filter is provided to list (any str, the empty one
\* included), every record of the result has exactly that owner.
C12_OwnerFilter ==
    \A p \in Listed :
        op[p].username # Unset =>
            \A t \in Range(ls[p].templates) : t.username = op[p].username

\* A record passes the owner filter f: no filter was provided, or its owner
\* is exactly f.
PassesFilter(t, f) == f = Unset \/ t.username = f

\* The readable records of the listing of p that pass its owner filter.
Candidates(p) ==
    LET pass(t) == PassesFilter(t, op[p].username)
    IN  SelectSeq(TemplatesOf(ls[p].results), pass)

\* page holds the elements at positions offset .. offset+limit-1 (from 0) of
\* a sequence of the records c ordered by updated_at descending.
IsPage(page, c, limit, offset) ==
    LET n == Len(c) - offset
    IN  /\ Len(page) <= limit
        /\ Len(page) = (IF n < 0 THEN 0 ELSE IF limit < n THEN limit ELSE n)
        /\ \A j, k \in DOMAIN page : j # k => page[j] # page[k]
        /\ \A k \in DOMAIN page :
              /\ page[k] \in Range(c)
              /\ Cardinality({i \in DOMAIN c : c[i].updated_at > page[k].updated_at})
                     <= offset + k - 1
              /\ Cardinality({i \in DOMAIN c : c[i].updated_at >= page[k].updated_at})
                     >= offset + k

\* C13: list(limit, offset, f), with the limit and offset the repository
\* receives, returns the elements at positions offset .. offset+limit-1 of
\* the readable records that pass the owner filter f, ordered by updated_at
\* descending, and never more than limit records.
C13_Page ==
    \A p \in Listed :
        IsPage(ls[p].templates, Candidates(p), ls[p].limit, ls[p].offset)

\* The text begins with a preamble that is not well-formed: the block between
\* the first two delimiters is not empty and is no mapping.
CorruptPreamble(content) ==
    LET ds == DelimPositions(content)
    IN  /\ content # <<>>
        /\ content[1] = "---"
        /\ Cardinality(ds) >= 2
        /\ LET block == StripSpace(SubSeq(content, 2, Min(ds \ {1}) - 1))
           IN  block # <<>> /\ ~IsMapping(block)

\* The preamble is a mapping whose title is null.
NullTitle(content) ==
    /\ ~CorruptPreamble(content)
    /\ LET metadata == ExtractFrontMatter(content).metadata
       IN  "title:" \in DOMAIN metadata /\ metadata["title:"] = NoneV

\* The positions of the files the listing of p enumerated and that no request
\* touched while it ran.
Untouched(p) ==
    {i \in DOMAIN ls[p].all_files :
        LET n == ls[p].all_files[i]
        IN  /\ n \in DOMAIN call[p].pre
            /\ n \in DOMAIN dir
            /\ call[p].pre[n] = View[n]}

\* The text list read at position i.
TextAt(p, i) == View[ls[p].all_files[i]]

\* The record of a file without metadata: the title from the file name, the
\* whole text as content, no description, owner "unknown", both timestamps
\* the file's modification time.
FallbackRecord(n) ==
    Template(FilenameToTitle(n), View[n], <<>>, <<"u", "n", "k", "n", "o", "w", "n">>,
             inodes[dir[n]].mtime, inodes[dir[n]].mtime)

\* C14 (as stated): a file whose preamble is corrupted or unparsable is
\* excluded from the result of list.
C14_CorruptExcluded ==
    \A p \in Listed : \A i \in Untouched(p) :
        (CorruptPreamble(TextAt(p, i)) \/ NullTitle(TextAt(p, i)))
            => ls[p].results[i].st # "ok"

\* C14 (amended): list never raises because of such a file; a file whose
\* preamble is no well-formed mapping is read as a record without metadata
\* (title from the file name, the whole text as content, timestamps from the
\* modification time) and takes part in the listing; a file whose preamble is
\* a mapping with a field of the wrong type (a null title) is excluded.
C14_CorruptFallback ==
    /\ \A i \in Done : hist[i].op.kind = "list" => hist[i].st = "ok"
    /\ \A p \in Listed : \A i \in Untouched(p) :
          /\ CorruptPreamble(TextAt(p, i))
                => ls[p].results[i] = Result("ok", FallbackRecord(ls[p].all_files[i]))
          /\ NullTitle(TextAt(p, i)) => ls[p].results[i].st # "ok"

\* C14 witness: a listing has returned that enumerated a file with a corrupt
\* preamble and a file with a null title next to a well-formed record, and
\* its page holds the well-formed record.
C14_Witness ==
    \E p \in Listed : \E i, j \in Untouched(p) :
        /\ CorruptPreamble(TextAt(p, i)) \/ NullTitle(TextAt(p, i))
        /\ ~CorruptPreamble(TextAt(p, j)) /\ ~NullTitle(TextAt(p, j))
        /\ ls[p].results[j].st = "ok"
        /\ ls[p].results[j].t \in Range(ls[p].templates)

\* The record t was considered for the page: it is on the page, or the page
\* is full of records updated no earlier, or the offset skipped it as one
\* updated no earlier than the page.
Considered(t, page, limit, offset) ==
    \/ t \in Range(page)
    \/ Len(page) = limit /\ \A k \in DOMAIN page : page[k].updated_at >= t.updated_at
    \/ offset > 0 /\ \A k \in DOMAIN page : page[k].updated_at <= t.updated_at

\* C15: list never fails because of one entry: an enumerated file whose read
\* or parse fails (a file deleted between the enumeration and its read
\* included) is left out of the page, and every other enumerated file that
\* holds a readable record passing the filter is read and considered for it.
C15_EntryFailureOmitted ==
    /\ \A e \in Range(hist) : e.op.kind = "list" => e.st = "ok"
    /\ \A p \in Listed :
          /\ \A i \in DOMAIN ls[p].results :
                ls[p].results[i].st # "ok" =>
                    \A t \in Range(ls[p].templates) :
                        t.title # FilenameToTitle(ls[p].all_files[i])
          /\ \A j \in Untouched(p) :
                LET h == Held(View, ls[p].all_files[j])
                IN  (h.st = "ok" /\ PassesFilter(h.t, op[p].username)) =>
                        /\ ls[p].results[j] = Result("ok", h.t)
                        /\ Considered(h.t, ls[p].templates, ls[p].limit, ls[p].offset)

\* C15 witness: a listing has returned ok although a file it enumerated was
\* deleted before it was read, and another file's record is on its page.
C15_Witness ==
    \E p \in Listed : \E i \in DOMAIN ls[p].results : \E j \in Untouched(p) :
        /\ ls[p].results[i].st = "NotFound"
        /\ ls[p].all_files[i] \notin DOMAIN dir
        /\ ls[p].results[j].st = "ok"
        /\ ls[p].results[j].t \in Range(ls[p].templates)
        /\ hist[Len(hist)].op.kind = "list" /\ hist[Len(hist)].st = "ok"

\* The temporary files of the atomic write that are in the directory.
TempFiles == {n \in DOMAIN dir : Suffix(n) = ".tmp"}

\* C16: list never reads a temporary file of the atomic write and never
\* returns one as a record: every file it enumerates is a key path, and every
\* record of its page was read from a key path.
C16_NoTempListed ==
    \A p \in Procs :
        op[p].kind = "list" =>
            /\ \A i \in DOMAIN ls[p].all_files :
                  Suffix(ls[p].all_files[i]) # ".tmp" /\ IsKeyPath(ls[p].all_files[i])
            /\ \A t \in Range(ls[p].templates) :
                  \E i \in DOMAIN ls[p].results :
                      ls[p].results[i] = Result("ok", t) /\ IsKeyPath(ls[p].all_files[i])

\* C16 witness: a write failed and left its temporary file behind before a
\* list was called; the list has returned a page of records while the
\* temporary file was in the directory.
C16_Witness ==
    \E p \in Listed : \E i, j \in Done :
        /\ hist[i].op.kind = "create" /\ hist[i].st = "IOError"
        /\ hist[j].op.kind = "list" /\ hist[j].proc = p
        /\ hist[i].ret < hist[j].inv
        /\ TempPath(KeyOf(hist[i])) \in TempFiles
        /\ ls[p].templates # <<>>

\* The completed get, update and delete requests whose title is not empty and
\* whose key had no file when they were called.
OnMissing ==
    {i \in Done : /\ hist[i].op.kind \in {"get", "update", "delete"}
                  /\ hist[i].op.title # <<>>
                  /\ KeyOf(hist[i]) \notin DOMAIN hist[i].pre}

\* C17: get, update and delete on a title whose key has no file fail with
\* NotFound and leave the directory as it was: no file is created, modified
\* or removed.
C17_NotFoundNoChange ==
    \A i \in OnMissing :
        /\ hist[i].st = "NotFound"
        /\ hist[i].t = NoTemplate
        /\ hist[i].post = hist[i].pre

\* C17 witness: a get, an update and a delete have each failed with NotFound
\* on a missing key while the directory held another file.
C17_Witness ==
    \A k \in {"get", "update", "delete"} :
        \E i \in OnMissing :
            /\ hist[i].op.kind = k
            /\ hist[i].st = "NotFound"
            /\ hist[i].pre # EmptyFn

\* An empty or blank title: nothing but white space.
Blank(title) == StripSpace(title) = <<>>

\* C18: create, get, update and delete called with an empty or blank title
\* fail with ValidationError and leave the directory unchanged.
C18_BlankTitleRejected ==
    \A i \in Done :
        (hist[i].op.kind \in {"create", "get", "update", "delete"}
         /\ Blank(hist[i].op.title))
            => hist[i].st = "ValidationError" /\ hist[i].post = hist[i].pre

\* The client-fault response that matches an outcome.
ClientFault(fe, st) ==
    CASE st = "ValidationError" -> IF fe = "http" THEN "422" ELSE "Validation Error"
      [] st = "NotFound" -> IF fe = "http" THEN "404" ELSE "Template not found"
      [] st = "AlreadyExists" -> IF fe = "http" THEN "409" ELSE "Template already exists"

\* The server-fault responses.
ServerFaults == {"500", "Internal Server Error", "Unexpected Error"}

\* C19: every route and every tool handler answers ValidationError, NotFound
\* and AlreadyExists with the matching client-fault response and IOError with
\* a server-fault response; a ValidationError is never answered as a server
\* fault.
C19_FaultClasses ==
    \A i \in Done : \A fe \in FrontEnds :
        Routable(fe, hist[i].op, hist[i].st) =>
            LET response == Response(fe, hist[i].op.kind, hist[i].st)
            IN  /\ hist[i].st \in {"ValidationError", "NotFound", "AlreadyExists"}
                      => response = ClientFault(fe, hist[i].st)
                /\ hist[i].st = "IOError" => response \in ServerFaults
                /\ hist[i].st = "ValidationError" => response \notin ServerFaults

\* C20: a tool handler never raises to its caller: whatever the outcome, a
\* failure of get_service() included, it answers with a dictionary.
C20_ToolNeverRaises ==
    \A i \in Done :
        Routable("tool", hist[i].op, hist[i].st)
            => Response("tool", hist[i].op.kind, hist[i].st) # "raise"

\* The record stored at the key of request i after it returned has the same
\* content, description or owner (f) as the one stored before.
Kept(i, f) ==
    LET after == Held(hist[i].post, KeyOf(hist[i]))
    IN  /\ after.st = "ok"
        /\ CASE f = "content" -> after.t.content = Old(i).content
             [] f = "description" -> after.t.description = Old(i).description
             [] f = "username" -> after.t.username = Old(i).username

\* C21: an update made through the PUT route or the update tool leaves every
\* one of content, description and owner that its caller did not provide
\* with the stored value it had before.
C21_FrontEndUpdateFrame ==
    \A i \in Updates : \A fe \in FrontEnds :
        Carries(fe, hist[i].op) =>
            /\ ~Provided(fe, hist[i].op.content) => Kept(i, "content")
            /\ ~Provided(fe, hist[i].op.description) => Kept(i, "description")
            /\ ~Provided(fe, hist[i].op.username) => Kept(i, "username")

\* The completed deletes of a title that is not empty, as the tool handler
\* passes them to the service.
ToolDeletes == {i \in Done : hist[i].op.kind = "delete" /\ hist[i].op.title # <<>>}

\* C22: the delete tool handler returns a result whose success field is true
\* for an existing template, and a result whose error field is "Template not
\* found" for an absent one.
C22_DeleteToolResult ==
    \A i \in ToolDeletes :
        LET result == ToolDeleteResult(hist[i].st)
        IN  IF KeyOf(hist[i]) \in DOMAIN hist[i].pre
            THEN "success" \in DOMAIN result /\ result["success"] = TRUE
            ELSE "error" \in DOMAIN result /\ result["error"] = "Template not found"

\* The coroutines for which _title_to_filename has returned; loc[p].text is
\* the key.
Keyed == {p \in Procs : op[p].kind = "derive_key" /\ pc[p] = "idle"}

\* The characters that do not survive in a key: white space (the
\* compatibility space too), the separators, the underscore.
Separator(c) ==
    c \in {" ", "\n", "\t", "U+3000", "_", "<", ">", ":", "\"", "/", "\\", "|", "?",
           "*", ".", ",", ";", "!", "#", "%", "=", "+", "~", "'"}

\* The fallback key.
DefaultKey ==
    <<"d", "e", "f", "a", "u", "l", "t", "_", "t", "e", "m", "p", "l", "a", "t", "e",
      ".md">>

Stem(key) == SubSeq(key, 1, Len(key) - 1)

GetsOfFile ==
    {i \in Done : hist[i].op.kind = "get" /\ KeyOf(hist[i]) \in DOMAIN hist[i].pre}

\* A timestamp line of this form gives no timestamp: there is no line, or
\* its value is not the text of a timestamp.
NoTimestamp(form) == form \in {Absent, <<"z">>, <<"42">>, <<"null">>, <<"'", "'">>}

\* C25: reading a stored file never fails because of its timestamps: get of
\* an existing file returns a record, and when created_at or updated_at is
\* absent or is no timestamp, whatever its form, both timestamps of the
\* record are the file's modification time.
C25_TimestampFallback ==
    \A i \in GetsOfFile : \A c \in TsForms, u \in TsForms :
        LET path == KeyOf(hist[i])
        IN  hist[i].pre[path] = TsFile(c, u) =>
                /\ hist[i].st = "ok"
                /\ (NoTimestamp(c) \/ NoTimestamp(u)) =>
                       /\ hist[i].t.created_at = inodes[dir[path]].mtime
                       /\ hist[i].t.updated_at = inodes[dir[path]].mtime

\* The text does not begin with the front-matter delimiter.
NoPreamble(content) == content = <<>> \/ content[1] # "---"

\* C26: get of a file that does not begin with the delimiter, or whose
\* delimited block is not a mapping, returns the record without metadata:
\* the whole text as content, description "", owner "unknown", the title
\* rebuilt from the file name.
C26_MalformedPreamble ==
    \A i \in GetsOfFile :
        LET path == KeyOf(hist[i])
            text == hist[i].pre[path]
        IN  (NoPreamble(text) \/ CorruptPreamble(text)) =>
                /\ hist[i].st = "ok"
                /\ hist[i].t.content = text
                /\ hist[i].t.description = <<>>
                /\ hist[i].t.username = <<"u", "n", "k", "n", "o", "w", "n">>
                /\ hist[i].t.title = FilenameToTitle(path)

\* A get has returned the record of a file whose front matter does not parse.
C26_Witness ==
    \E i \in GetsOfFile :
        /\ hist[i].pre[KeyOf(hist[i])] = Unparsable
        /\ hist[i].st = "ok"
        /\ hist[i].t.title = <<"A">>
        /\ hist[i].t.content = Unparsable

\* The completed creates and updates whose atomic write failed.
WriteFailed == {i \in Done : hist[i].op.kind \in {"create", "update"} /\ hist[i].st = "IOError"}

\* C27: a create or update whose atomic write fails raises IOError, leaves no
\* temporary file, and leaves the key path as it was at the call: absent for
\* a create, the record that was there for an update.
C27_FailedWriteCleansUp ==
    /\ (faults > 0 /\ AllIdle) => WriteFailed # {}
    /\ \A i \in WriteFailed :
          LET path == KeyOf(hist[i])
              pre == hist[i].pre
              post == hist[i].post
          IN  /\ TempPath(path) \notin DOMAIN post
              /\ path \in DOMAIN post <=> path \in DOMAIN pre
              /\ path \in DOMAIN pre => post[path] = pre[path]

\* The completed creates of kind k.
CreatesBy(k) == {i \in Done : hist[i].op.kind = k /\ hist[i].op.title # <<>>}

\* What a create makes of the directory it finds: AlreadyExists when the
\* file of the key is there, whatever it holds.
CreateOutcome(i) ==
    IF KeyOf(hist[i]) \in DOMAIN hist[i].pre THEN "AlreadyExists" ELSE "ok"

\* C28: the service's create has the outcome of the store's create in every
\* state of the directory: AlreadyExists whenever the file of the key exists,
\* whatever it holds, and success otherwise.
C28_ServiceCreateAsStore ==
    /\ \A i \in CreatesBy("create") : hist[i].st = CreateOutcome(i)
    /\ \A i \in CreatesBy("svc_create") : hist[i].st = CreateOutcome(i)

\* The key paths that hold a file the store wrote.
StoredKeys == {n \in DOMAIN dir : IsKeyPath(n) /\ inodes[dir[n]].data \in writes}

\* What _read_template_file makes of the file at n, its stat included.
ReadOf(n) == ParseTemplate(View[n], n, inodes[dir[n]].mtime, TRUE)

\* C29: every file the store has written at a key path reads back as a
\* record, whatever values the successful creates and updates supplied: no
\* get of a key the store wrote fails with IOError.
C29_StoredRecordsReadable ==
    /\ \A n \in StoredKeys : ReadOf(n).st = "ok"
    /\ \A i \in Returned("get", "IOError") : KeyOf(hist[i]) \notin StoredKeys

\* The completed requests that returned one record.
Records1 == {i \in Done : hist[i].op.kind \in {"create", "svc_create", "update", "get"}
                          /\ hist[i].st = "ok"}

\* A delete of the key of request i was in flight at some time between the
\* call of i and the return of j.
DeleteBetween(i, j) ==
    \E k \in Done : /\ hist[k].op.kind = "delete"
                    /\ KeyOf(hist[k]) = KeyOf(hist[i])
                    /\ hist[k].ret > hist[i].inv
                    /\ hist[k].inv < hist[j].ret

\* C30: every record the store returns has created_at <= updated_at, and
\* from the create of a key until its delete every record returned for the
\* key carries the created_at the create returned.
C30_CreatedAtStable ==
    /\ \A i \in Records1 : hist[i].t.created_at <= hist[i].t.updated_at
    /\ \A i \in Records1, j \in Records1 :
          ( /\ hist[i].op.kind \in {"create", "svc_create"}
            /\ i < j
            /\ KeyOf(hist[j]) = KeyOf(hist[i])
            /\ ~DeleteBetween(i, j) )
          => hist[j].t.created_at = hist[i].t.created_at
====
